---- MODULE Spec2Model ----
(***************************************************************************)
(* Model of chart_analysis/cg_api_analysis.py: the class                   *)
(* analyze_coin_market_chart, its per-asset CSV cache under datasets/, the *)
(* series builder reformat_data, the top-coin resolver and the pairwise    *)
(* correlation queries.                                                    *)
(*                                                                         *)
(* Numbers.  Prices are non-negative integers.  A percent change is kept   *)
(* as an exact reduced fraction, or as one of the two special float values *)
(* the division can produce: inf (x/0 with x > 0) and NaN (0/0).  A        *)
(* correlation coefficient is kept only as "defined" or NaN.               *)
(* Dates are day numbers; today is the value of dt.date.today().           *)
(***************************************************************************)
EXTENDS Integers, Sequences, FiniteSets, TLC

\* ------------------------------------------------------------------ bounds
MaxPrice == 1
MaxSamples == 3
MaxLen == 2
MaxDay == 1
MaxCalls == 2

\* ------------------------------------------------------------- primitives
Range(s) == {s[i] : i \in 1..Len(s)}

SeqsUpTo(S, n) == UNION {[1..k -> S] : k \in 0..n}

Abs(x) == IF x < 0 THEN -x ELSE x

RECURSIVE Gcd(_, _)
Gcd(a, b) == IF b = 0 THEN a ELSE Gcd(b, a % b)

NaN == [k |-> "nan", n |-> 0, d |-> 0]
Inf == [k |-> "inf", n |-> 0, d |-> 0]
Num(n, d) == LET g == Gcd(Abs(n), d) IN [k |-> "num", n |-> n \div g, d |-> d \div g]

\* pandas isna(): NaN is missing, inf is not.
IsNa(v) == v.k = "nan"

\* ---------------------------------------------------- python values (ids)
\* An element of an id list, or an id given on its own: a str, None, or
\* something that is no str (a number).
Str(s) == [kind |-> "str", text |-> s]
None == [kind |-> "none", text |-> ""]
NotStr == [kind |-> "int", text |-> "7"]

\* str.strip() on the texts of the model: whitespace-only becomes empty.
Strip(s) == IF s = " " THEN "" ELSE s

\* coin is None or not isinstance(coin, str) or coin.strip() == ""
InvalidId(coin) == coin.kind = "none" \/ coin.kind # "str" \/ Strip(coin.text) = ""

\* ------------------------------------------------------- provider replies
\* get_coin_market_chart_by_id: raises, returns a falsy value, returns a
\* dict without 'prices', or returns {'prices': [[timestamp, price], ...]}.
ApiError == [t |-> "error", prices |-> <<>>]
ApiFalsy == [t |-> "falsy", prices |-> <<>>]
ApiNoPrices == [t |-> "nokey", prices |-> <<>>]
Chart(ps) == [t |-> "chart", prices |-> [i \in 1..Len(ps) |-> <<i, ps[i]>>]]
\* No provider call was made.
NoCall == [t |-> "nocall", prices |-> <<>>]

\* ------------------------------------------------- reformat_data (builder)
\* prices = [pair[1] for pair in chart_data['prices']]
Prices(chart) == [i \in 1..Len(chart.prices) |-> chart.prices[i][2]]

\* The loop over range(len(prices)): date_price[current_date] = prices[-(i+1)],
\* in insertion order (most recent date first).
DatePrice(prices, current_date) ==
  [j \in 1..Len(prices) |->
     [date |-> current_date - (j - 1), daily_close |-> prices[Len(prices) - (j - 1)]]]

\* df.sort_index(): ascending by date (insertion sort).
RECURSIVE InsertRow(_, _)
InsertRow(r, s) ==
  IF s = <<>> THEN <<r>>
  ELSE IF r.date < Head(s).date THEN <<r>> \o s
  ELSE <<Head(s)>> \o InsertRow(r, Tail(s))

RECURSIVE SortIndex(_)
SortIndex(s) == IF s = <<>> THEN <<>> ELSE InsertRow(Head(s), SortIndex(Tail(s)))

\* One element of Series.pct_change() * 100: (cur / prev - 1) * 100 in floats.
PctOf(prev, cur) ==
  IF prev = 0 THEN (IF cur = 0 THEN NaN ELSE Inf)
  ELSE Num((cur - prev) * 100, prev)

\* df['percent_change'] = df['daily_close'].pct_change() * 100
PctChange(df) ==
  [i \in 1..Len(df) |->
     [date |-> df[i].date,
      daily_close |-> df[i].daily_close,
      percent_change |-> IF i = 1 THEN NaN
                         ELSE PctOf(df[i-1].daily_close, df[i].daily_close)]]

\* df.dropna(subset=['percent_change'])
DropNaPct(df) == SelectSeq(df, LAMBDA r : ~IsNa(r.percent_change))

\* reformat_data applied to a chart on the day current_date.
ReformatData(chart, current_date) ==
  DropNaPct(PctChange(SortIndex(DatePrice(Prices(chart), current_date))))

\* ------------------------------------------------------------------ state
VARIABLES
  today,      \* dt.date.today()
  datasets,   \* the CSV files under datasets/, by file name
  self,       \* the analysis object of the current session
  ret,        \* the last call: its arguments and what it returned or raised
  nbuilds     \* how many times a constructor or save_tables has been called

vars == <<today, datasets, self, ret, nbuilds>>

\* ------------------------------------------------------------ CSV storage
\* file_name = f'datasets/{coin}_{self.vs_currency}_{self.days}days.csv'
FileName(coin, vs_currency, days) == <<coin.text, vs_currency, days>>

\* Mutant of Exists: the file is looked for where it never is.
ExistsNever(files, file_name) == FALSE

\* os.path.exists(file_name)
Exists(files, file_name) == file_name \in DOMAIN files

\* DataFrame.to_csv: a header line, then one line per row with the index
\* (the date, written as text) first.
DateText(d) == <<"iso", d>>
ParseDate(t) == t[2]

ToCsv(df) ==
  [header |-> <<"date", "daily_close", "percent_change">>,
   lines |-> [i \in 1..Len(df) |->
                <<DateText(df[i].date), df[i].daily_close, df[i].percent_change>>]]

\* pd.read_csv(file_name, index_col='date', parse_dates=True): the columns
\* are found by their header names.
Column(file, name) == CHOOSE c \in 1..Len(file.header) : file.header[c] = name

ReadCsv(file) ==
  [i \in 1..Len(file.lines) |->
     [date |-> ParseDate(file.lines[i][Column(file, "date")]),
      daily_close |-> file.lines[i][Column(file, "daily_close")],
      percent_change |-> file.lines[i][Column(file, "percent_change")]]]

\* ------------------------------------------------ self.saved_tables (dict)
\* A Python dict keeps its keys in insertion order; assigning to a key that
\* is present replaces the value in place.
EmptyDict == <<>>
DictHas(dict, key) == \E i \in 1..Len(dict) : dict[i].key = key
DictGet(dict, key) == dict[CHOOSE i \in 1..Len(dict) : dict[i].key = key].table
DictPut(dict, key, table) ==
  IF DictHas(dict, key)
  THEN [i \in 1..Len(dict) |->
          IF dict[i].key = key THEN [key |-> key, table |-> table] ELSE dict[i]]
  ELSE Append(dict, [key |-> key, table |-> table])
DictKeys(dict) == [i \in 1..Len(dict) |-> dict[i].key]

\* ------------------------------------------------------------ save_tables
\* Mutant of Sufficient: > written for >=.
SufficientStrict(raw_chart, days) ==
  raw_chart.t = "chart" /\ 2 * Len(raw_chart.prices) > days

\* raw_chart and 'prices' in raw_chart and len(raw_chart['prices']) >= .5 * self.days
Sufficient(raw_chart, days) ==
  raw_chart.t = "chart" /\ 2 * Len(raw_chart.prices) >= days

\* What one pass of the loop records: the coin, which branch ran, the
\* provider call it made (if any) and whether it assigned
\* self.saved_tables[coin] and wrote the file.
Pass(coin, branch, reply, asked, stored, persisted, failed) ==
  [coin |-> coin, branch |-> branch, reply |-> reply, asked |-> asked,
   stored |-> stored, persisted |-> persisted, failed |-> failed]

\* One pass of "for coin in coin_list" on the loop state
\* st = [tables, files, failed_coins, log]; reply is what the provider
\* answers if it is called, write_ok whether to_csv succeeds if it is called.
SaveOne(st, coin, vs_currency, days, current_date, reply, write_ok) ==
  LET file_name == FileName(coin, vs_currency, days) IN
  IF InvalidId(coin)
  THEN [st EXCEPT !.failed_coins = Append(@, coin),
                  !.log = Append(@, Pass(coin, "skip", NoCall, 0, FALSE, FALSE, TRUE))]
  ELSE IF Exists(st.files, file_name)
  THEN [st EXCEPT !.tables = DictPut(@, coin.text, ReadCsv(st.files[file_name])),
                  !.log = Append(@, Pass(coin, "load", NoCall, 0, TRUE, FALSE, FALSE))]
  ELSE IF reply.t = "error"
  THEN [st EXCEPT !.failed_coins = Append(@, coin),
                  !.log = Append(@, Pass(coin, "fetch", reply, days + 1, FALSE, FALSE, TRUE))]
  ELSE IF Sufficient(reply, days)
  THEN LET table == ReformatData(reply, current_date) IN
       IF write_ok
       THEN [st EXCEPT !.tables = DictPut(@, coin.text, table),
                       !.files = (file_name :> ToCsv(table)) @@ @,
                       !.log = Append(@, Pass(coin, "fetch", reply, days + 1, TRUE, TRUE, FALSE))]
       ELSE [st EXCEPT !.tables = DictPut(@, coin.text, table),
                       !.failed_coins = Append(@, coin),
                       !.log = Append(@, Pass(coin, "fetch", reply, days + 1, TRUE, FALSE, TRUE))]
  ELSE [st EXCEPT !.failed_coins = Append(@, coin),
                  !.log = Append(@, Pass(coin, "fetch", reply, days + 1, FALSE, FALSE, TRUE))]

\* Mutant of SaveLoop: the first failed pass ends the loop, as an exception
\* that nothing catches would.
RECURSIVE SaveLoopAbort(_, _, _, _, _, _, _, _)
SaveLoopAbort(i, st, coin_list, vs_currency, days, current_date, replies, writes) ==
  IF i > Len(coin_list) \/ (st.log # <<>> /\ st.log[Len(st.log)].failed) THEN st
  ELSE SaveLoopAbort(i + 1,
                     SaveOne(st, coin_list[i], vs_currency, days, current_date,
                             replies[i], writes[i]),
                     coin_list, vs_currency, days, current_date, replies, writes)

\* The whole loop, from pass i on.
RECURSIVE SaveLoop(_, _, _, _, _, _, _, _)
SaveLoop(i, st, coin_list, vs_currency, days, current_date, replies, writes) ==
  IF i > Len(coin_list) THEN st
  ELSE SaveLoop(i + 1,
                SaveOne(st, coin_list[i], vs_currency, days, current_date,
                        replies[i], writes[i]),
                coin_list, vs_currency, days, current_date, replies, writes)

\* Lines 253-257, after the loop ended in st: self.id loses the failed
\* coins and is_saved is set.
AfterLoop(obj, coin_list, st) ==
  [obj |-> [obj EXCEPT
              !.has_tables = TRUE,
              !.saved_tables = st.tables,
              !.id = [isList |-> TRUE,
                      items |-> SelectSeq(coin_list,
                                  LAMBDA coin : coin \notin Range(st.failed_coins))],
              !.is_saved = TRUE],
   files |-> st.files, log |-> st.log, ran |-> TRUE]

\* save_tables(coin_list) on the object obj: the object and the files
\* afterwards, the passes of the loop, and whether the loop ran at all.
SaveTables(obj, files, coin_list, current_date, replies, writes) ==
  IF ~obj.reset /\ obj.is_saved
  THEN [obj |-> obj, files |-> files, log |-> <<>>, ran |-> FALSE]
  ELSE AfterLoop(obj, coin_list,
                 SaveLoop(1,
                          [tables |-> EmptyDict, files |-> files,
                           failed_coins |-> <<>>, log |-> <<>>],
                          coin_list, obj.vs_currency, obj.days, current_date,
                          replies, writes))

\* -------------------------------------------------------------- top_coins
\* get_coins_markets: raises, or returns a list of records, each with an id.
MarketError == [t |-> "error", records |-> <<>>]
Market(ids) == [t |-> "ok", records |-> ids]

\* record.get('id') as a condition: None and '' are falsy.
Truthy(x) == x.kind # "none" /\ x.text # ""

\* self.top_coins is the bound method until the first successful fetch
\* assigns the list to the attribute of the same name.
Method == [callable |-> TRUE, list |-> <<>>]
Attr(l) == [callable |-> FALSE, list |-> l]

\* The body of top_coins(limit).  date_of_save and last_top_coin_limit are
\* <<>> while the attribute does not exist (the lookup then raises inside
\* the try and the except passes).
TopCoins(obj, limit, current_date, reply) ==
  IF obj.date_of_save = <<current_date>> /\ obj.last_top_coin_limit = <<limit>>
  THEN [obj |-> obj, value |-> obj.top_coins.list, market |-> 0]
  ELSE IF reply.t = "error"
  THEN [obj |-> obj, value |-> <<>>, market |-> 1]
  ELSE LET top == SelectSeq(reply.records, Truthy) IN
       [obj |-> [obj EXCEPT !.top_coins = Attr(top),
                            !.date_of_save = <<current_date>>,
                            !.last_top_coin_limit = <<limit>>],
        value |-> top, market |-> 1]

\* obj.top_coins(limit) as a caller writes it: the attribute is looked up
\* on the instance first, and a list is not callable.
CallTopCoins(obj, limit, current_date, reply) ==
  IF obj.top_coins.callable
  THEN [raised |-> ""] @@ TopCoins(obj, limit, current_date, reply)
  ELSE [raised |-> "TypeError", obj |-> obj, value |-> <<>>, market |-> 0]

\* --------------------------------------------------------------- __init__
NoFiles == [x \in {} |-> <<>>]

NoObject ==
  [live |-> FALSE, id |-> [isList |-> FALSE, items |-> <<>>], vs_currency |-> "",
   days |-> 0, is_saved |-> FALSE, reset |-> FALSE, has_tables |-> FALSE,
   saved_tables |-> EmptyDict, raw_chart |-> <<>>, top_coins |-> Method,
   date_of_save |-> <<>>, last_top_coin_limit |-> <<>>]

\* Lines 81-88: the attributes set before any branch.
Fresh(id, vs_currency, days, reset) ==
  [NoObject EXCEPT !.live = TRUE, !.id = id, !.vs_currency = vs_currency,
                   !.days = days, !.reset = reset]

AnId(coin) == [isList |-> FALSE, items |-> <<coin>>]
AList(coins) == [isList |-> TRUE, items |-> coins]

\* Line 97: [coin for coin in self.id if coin is not None and
\* isinstance(coin, str) and coin.strip() != ""]
Normalize(items) == SelectSeq(items, LAMBDA coin : ~InvalidId(coin))

\* The constructor.  limit = 0 stands for limit=False.  The result names the
\* exception raised ("" for none), the object, the files and the passes of
\* the batch loop or the single fetch.
Construct(id, vs_currency, days, limit, reset, files, current_date, market, replies, writes) ==
  LET o1 == Fresh(id, vs_currency, days, reset)
      tc == IF limit # 0 THEN TopCoins(o1, limit, current_date, market)
            ELSE [obj |-> o1, value |-> <<>>, market |-> 0]
      o2 == IF limit # 0 THEN [tc.obj EXCEPT !.id = AList(tc.value)] ELSE o1
  IN
  IF o2.id.isList
  THEN LET valid == Normalize(o2.id.items) IN
       IF valid = <<>>
       THEN [raised |-> "ValueError", obj |-> NoObject, files |-> files,
             log |-> <<>>, ran |-> FALSE, market |-> tc.market]
       ELSE [raised |-> "", market |-> tc.market]
            @@ SaveTables([o2 EXCEPT !.id = AList(valid)], files, valid,
                          current_date, replies, writes)
  ELSE LET coin == o2.id.items[1]
           reply == replies[1]
       IN
       IF InvalidId(coin)
       THEN [raised |-> "ValueError", obj |-> NoObject, files |-> files,
             log |-> <<>>, ran |-> FALSE, market |-> tc.market]
       ELSE IF reply.t # "chart" \/ Len(reply.prices) = 0
       THEN [raised |-> "ValueError", obj |-> NoObject, files |-> files,
             log |-> <<Pass(coin, "single", reply, days + 1, FALSE, FALSE, TRUE)>>,
             ran |-> FALSE, market |-> tc.market]
       ELSE [raised |-> "",
             obj |-> [o2 EXCEPT !.raw_chart = <<reply>>, !.is_saved = TRUE],
             files |-> files,
             log |-> <<Pass(coin, "single", reply, days + 1, TRUE, FALSE, FALSE)>>,
             ran |-> FALSE, market |-> tc.market]

\* --------------------------------- price_correlation, return_correlation
\* table[[field]].rename(columns={field: id}): the dates and one column.
Slice(table, field) ==
  [i \in 1..Len(table) |->
     [date |-> table[i].date,
      val |-> IF field = "daily_close" THEN Num(table[i].daily_close, 1)
              ELSE table[i].percent_change]]

\* The value a left join puts in the new column for the index value date.
Lookup(slice, date) ==
  IF \E i \in 1..Len(slice) : slice[i].date = date
  THEN slice[CHOOSE i \in 1..Len(slice) : slice[i].date = date].val
  ELSE NaN

\* coin_comparison.join(slice): DataFrame.join is a left join on the index.
Join(frame, name, slice) ==
  [columns |-> Append(frame.columns, name),
   rows |-> [i \in 1..Len(frame.rows) |->
               [date |-> frame.rows[i].date,
                vals |-> Append(frame.rows[i].vals, Lookup(slice, frame.rows[i].date))]]]

\* The loop over self.saved_tables.items(), from item i on.
RECURSIVE JoinFrom(_, _, _, _)
JoinFrom(i, frame, dict, field) ==
  IF i > Len(dict) THEN frame
  ELSE JoinFrom(i + 1, Join(frame, dict[i].key, Slice(dict[i].table, field)), dict, field)

\* coin_comparison after the loop; the first item makes the initial frame.
Comparison(dict, field) ==
  LET first == Slice(dict[1].table, field) IN
  JoinFrom(2,
           [columns |-> <<dict[1].key>>,
            rows |-> [i \in 1..Len(first) |->
                        [date |-> first[i].date, vals |-> <<first[i].val>>]]],
           dict, field)

\* Mutant of DropNa: dropna(how='all'), only rows with NaN in every column go.
DropNaAll(frame) ==
  [frame EXCEPT !.rows = SelectSeq(@, LAMBDA r : \E c \in 1..Len(r.vals) : ~IsNa(r.vals[c]))]

\* coin_comparison.dropna(): rows with NaN in any column go.
DropNa(frame) ==
  [frame EXCEPT !.rows = SelectSeq(@, LAMBDA r : \A c \in 1..Len(r.vals) : ~IsNa(r.vals[c]))]

RECURSIVE Sum(_)
Sum(s) == IF s = <<>> THEN 0 ELSE Head(s) + Sum(Tail(s))

Lcm(a, b) == (a * b) \div Gcd(a, b)

RECURSIVE LcmOf(_)
LcmOf(s) == IF s = <<>> THEN 1 ELSE Lcm(Head(s), LcmOf(Tail(s)))

\* A column of finite fractions on a common denominator (the correlation
\* does not change when a column is scaled by a positive number).
Scaled(xs) ==
  LET m == LcmOf([i \in 1..Len(xs) |-> xs[i].d]) IN
  [i \in 1..Len(xs) |-> xs[i].n * (m \div xs[i].d)]

Sign(x) == IF x > 0 THEN 1 ELSE IF x < 0 THEN -1 ELSE 0

CorrNaN == [k |-> "nan", sign |-> 0]

\* One cell of DataFrame.corr(): Pearson's r of two columns.  It is NaN with
\* fewer than two rows, with an infinite value, or with a constant column;
\* otherwise it is a number, of which the model keeps the sign.
Pearson(xs, ys) ==
  IF Len(xs) < 2 \/ \E i \in 1..Len(xs) : xs[i].k # "num" \/ ys[i].k # "num"
  THEN CorrNaN
  ELSE LET x == Scaled(xs)
           y == Scaled(ys)
           n == Len(x)
           sx == Sum(x)
           sy == Sum(y)
           vx == n * Sum([i \in 1..n |-> x[i] * x[i]]) - sx * sx
           vy == n * Sum([i \in 1..n |-> y[i] * y[i]]) - sy * sy
           cov == n * Sum([i \in 1..n |-> x[i] * y[i]]) - sx * sy
       IN IF vx = 0 \/ vy = 0 THEN CorrNaN ELSE [k |-> "num", sign |-> Sign(cov)]

HasColumn(frame, name) == \E c \in 1..Len(frame.columns) : frame.columns[c] = name
ColumnOf(frame, name) == CHOOSE c \in 1..Len(frame.columns) : frame.columns[c] = name

\* corr_matrix.at[coin1, coin2]
CorrAt(frame, coin1, coin2) ==
  Pearson([i \in 1..Len(frame.rows) |-> frame.rows[i].vals[ColumnOf(frame, coin1)]],
          [i \in 1..Len(frame.rows) |-> frame.rows[i].vals[ColumnOf(frame, coin2)]])

\* itertools.combinations(l, 2), in the order it yields the pairs.
RECURSIVE Combinations(_)
Combinations(l) ==
  IF Len(l) < 2 THEN <<>>
  ELSE [j \in 1..(Len(l) - 1) |-> <<l[1], l[j + 1]>>] \o Combinations(Tail(l))

\* sort_values(by=['correlation'], ascending=False): larger coefficients
\* first, NaN last.  The model orders by what it keeps of a coefficient.
Rank(corr) == IF corr.k = "nan" THEN -2 ELSE corr.sign

RECURSIVE InsertDesc(_, _)
InsertDesc(r, s) ==
  IF s = <<>> THEN <<r>>
  ELSE IF Rank(r.correlation) >= Rank(Head(s).correlation) THEN <<r>> \o s
  ELSE <<Head(s)>> \o InsertDesc(r, Tail(s))

RECURSIVE SortValues(_)
SortValues(s) ==
  IF s = <<>> THEN <<>> ELSE InsertDesc(Head(s), SortValues(Tail(s)))

\* What a call returns: Python None, a list, a series, a correlation table.
NoneValue == [t |-> "None", rows |-> <<>>]
ListValue(l) == [t |-> "list", rows |-> l]
FrameValue(df) == [t |-> "frame", rows |-> df]

\* price_correlation() (field "daily_close") and return_correlation()
\* (field "percent_change"): the exception raised ("" for none), the value
\* returned, and the index (the dates) of coin_comparison after its dropna,
\* <<>> when the call does not get that far.
Correlation(obj, field) ==
  IF ~obj.id.isList
  THEN [raised |-> "", value |-> NoneValue, index |-> <<>>]
  ELSE IF ~obj.has_tables
  THEN [raised |-> "AttributeError", value |-> NoneValue, index |-> <<>>]
  ELSE IF obj.saved_tables = EmptyDict
  THEN [raised |-> "UnboundLocalError", value |-> NoneValue, index |-> <<>>]
  ELSE LET coin_comparison == DropNa(Comparison(obj.saved_tables, field))
           index == [i \in 1..Len(coin_comparison.rows) |-> coin_comparison.rows[i].date]
           pairs == Combinations(obj.id.items)
       IN
       IF \E p \in 1..Len(pairs) :
            ~HasColumn(coin_comparison, pairs[p][1].text)
            \/ ~HasColumn(coin_comparison, pairs[p][2].text)
       THEN [raised |-> "KeyError", value |-> NoneValue, index |-> index]
       ELSE LET data == [p \in 1..Len(pairs) |->
                           [coin1 |-> pairs[p][1].text, coin2 |-> pairs[p][2].text,
                            correlation |-> CorrAt(coin_comparison, pairs[p][1].text,
                                                   pairs[p][2].text)]]
            IN [raised |-> "",
                value |-> FrameValue(SelectSeq(SortValues(data),
                                       LAMBDA r : r.correlation.k # "nan")),
                index |-> index]

\* ---------------------------------------------------------- state machine
Ret(op, args, raised, value, log, ran, market) ==
  [op |-> op, args |-> args, raised |-> raised, value |-> value, log |-> log,
   ran |-> ran, market |-> market]

NoArgs == [none |-> TRUE]

Init ==
  /\ today = 0
  /\ datasets = NoFiles
  /\ self = NoObject
  /\ ret = Ret("", NoArgs, "", NoneValue, <<>>, FALSE, 0)
  /\ nbuilds = 0

\* A new session: analyze_coin_market_chart(id, vs_currency, days, limit, reset).
\* market is what get_coins_markets answers, replies[i] what
\* get_coin_market_chart_by_id answers to the i-th coin, writes[i] whether
\* its to_csv succeeds.
DoInit(id, vs_currency, days, limit, reset, market, replies, writes) ==
  /\ nbuilds < MaxCalls
  /\ \E r \in {Construct(id, vs_currency, days, limit, reset, datasets, today,
                         market, replies, writes)} :
     /\ nbuilds' = nbuilds + 1
     /\ self' = r.obj
     /\ datasets' = r.files
     /\ ret' = Ret("__init__",
                   [id |-> id, vs_currency |-> vs_currency, days |-> days,
                    limit |-> limit, reset |-> reset],
                   r.raised, NoneValue, r.log, r.ran, r.market)
     /\ UNCHANGED today

\* self.save_tables(coin_list) called on the object of the session.
DoSaveTables(coin_list, replies, writes) ==
  /\ self.live
  /\ nbuilds < MaxCalls
  /\ \E r \in {SaveTables(self, datasets, coin_list, today, replies, writes)} :
     /\ nbuilds' = nbuilds + 1
     /\ self' = r.obj
     /\ datasets' = r.files
     /\ ret' = Ret("save_tables", [coin_list |-> coin_list], "", NoneValue,
                   r.log, r.ran, 0)
     /\ UNCHANGED today

\* self.top_coins(limit)
DoTopCoins(limit, market) ==
  /\ self.live
  /\ \E r \in {CallTopCoins(self, limit, today, market)} :
     /\ self' = r.obj
     /\ ret' = Ret("top_coins", [limit |-> limit], r.raised, ListValue(r.value),
                   <<>>, FALSE, r.market)
     /\ UNCHANGED <<today, datasets, nbuilds>>

\* self.price_correlation() and self.return_correlation(); ret.args has no
\* argument to hold and keeps the dates the call aligned the series on.
DoCorrelation(op, field) ==
  /\ self.live
  /\ \E r \in {Correlation(self, field)} :
     /\ ret' = Ret(op, [index |-> r.index], r.raised, r.value, <<>>, FALSE, 0)
     /\ UNCHANGED <<today, datasets, self, nbuilds>>

\* self.reformat_data(chart_data); chart_data is <<>> for None, and then
\* self.raw_chart is used, which only a single-coin object has.
DoReformatData(chart_data) ==
  /\ self.live
  /\ ret' = IF chart_data = <<>> /\ self.raw_chart = <<>>
            THEN Ret("reformat_data", [chart_data |-> chart_data], "AttributeError",
                     NoneValue, <<>>, FALSE, 0)
            ELSE Ret("reformat_data", [chart_data |-> chart_data], "",
                     FrameValue(ReformatData(
                       IF chart_data # <<>> THEN chart_data[1] ELSE self.raw_chart[1],
                       today)),
                     <<>>, FALSE, 0)
  /\ UNCHANGED <<today, datasets, self, nbuilds>>

\* Midnight passes.
Tick ==
  /\ today < MaxDay
  /\ today' = today + 1
  /\ ret' = Ret("", NoArgs, "", NoneValue, <<>>, FALSE, 0)
  /\ UNCHANGED <<datasets, self, nbuilds>>

\* ------------------------------------------------------------- input sets
Coins == {"a", "b"}
Ids == {Str(c) : c \in Coins}
Entries == Ids \cup {None, NotStr, Str(""), Str(" ")}
Windows == {2, 3}

RawLists == SeqsUpTo(0..MaxPrice, MaxSamples)
Charts == {Chart(ps) : ps \in RawLists}

\* What the provider answers in the batch scenarios: an error, a reply
\* without prices, and charts of zero to three samples, among them flat
\* prices and a price of zero.
Feed ==
  {ApiError, ApiNoPrices, Chart(<<>>), Chart(<<1>>), Chart(<<1, 2>>),
   Chart(<<1, 1, 0>>), Chart(<<1, 0, 1>>), Chart(<<1, 1, 1>>)}

\* --------------------------------------------- one session (SpecBatch)
\* A session opened on a list of ids, then queried.
BatchOpen ==
  /\ nbuilds = 0
  /\ \E coins \in SeqsUpTo(Entries, MaxLen), days \in Windows :
       \E replies \in [1..Len(coins) -> Feed], writes \in [1..Len(coins) -> BOOLEAN] :
         /\ \A i \in 1..Len(coins) :
              /\ InvalidId(coins[i]) => replies[i] = ApiError
              /\ ~writes[i] => ~InvalidId(coins[i]) /\ replies[i].t = "chart"
         /\ DoInit(AList(coins), "usd", days, 0, FALSE, MarketError, replies, writes)

\* A session opened on one id.
BatchSingle ==
  /\ nbuilds = 0
  /\ \E coin \in Entries, days \in Windows, reply \in Feed :
       DoInit(AnId(coin), "usd", days, 0, FALSE, MarketError, <<reply>>, <<TRUE>>)

AskPrice == DoCorrelation("price_correlation", "daily_close")

AskReturn == DoCorrelation("return_correlation", "percent_change")

NextBatch == BatchOpen \/ BatchSingle \/ AskPrice \/ AskReturn

SpecBatch == Init /\ [][NextBatch]_vars

\* ------------------------------------- the series builder (SpecBuilder)
\* Every raw list of up to MaxSamples samples with prices up to MaxPrice,
\* as the reply to a single-coin session, as the reply to a one-coin batch
\* build, and as the argument of reformat_data.
Replies == Charts \cup {ApiError, ApiFalsy, ApiNoPrices}

OpenSingle ==
  /\ nbuilds = 0
  /\ \E coin \in Ids, days \in Windows, reply \in Replies :
       DoInit(AnId(coin), "usd", days, 0, FALSE, MarketError, <<reply>>, <<TRUE>>)

OpenBasket ==
  /\ nbuilds = 0
  /\ \E coin \in Ids, days \in Windows, reply \in Replies :
       DoInit(AList(<<coin>>), "usd", days, 0, FALSE, MarketError, <<reply>>, <<TRUE>>)

Reformat ==
  \E chart_data \in {<<>>} \cup {<<c>> : c \in Charts} : DoReformatData(chart_data)

NextBuilder == OpenSingle \/ OpenBasket \/ Reformat \/ Tick

SpecBuilder == Init /\ [][NextBuilder]_vars

\* ------------------------------------------------------ claims, one session
\* The chart a reformat_data call worked on, as a sequence of at most one.
UsedChart ==
  IF ret.args.chart_data # <<>> THEN ret.args.chart_data ELSE self.raw_chart

IsCorrelationCall == ret.op \in {"price_correlation", "return_correlation"}

\* C4 as claimed: with fewer than two assets in the working basket,
\* price_correlation() and return_correlation() return None and do not raise.
C4_NoneBelowTwoAssets ==
  (IsCorrelationCall /\ (~self.id.isList \/ Len(self.id.items) < 2))
    => (ret.raised = "" /\ ret.value = NoneValue)

\* The ids of s in first-occurrence order, each once.
RECURSIVE Dedupe(_)
Dedupe(s) ==
  IF s = <<>> THEN <<>>
  ELSE LET rest == Dedupe(SubSeq(s, 1, Len(s) - 1))
           last == s[Len(s)]
       IN IF last \in Range(rest) THEN rest ELSE Append(rest, last)

\* The basket the constructor handed to the batch build.
BuiltBasket == [i \in 1..Len(ret.log) |-> ret.log[i].coin]

IsListInit == ret.op = "__init__" /\ ret.args.limit = 0 /\ ret.args.id.isList

\* C5 as claimed: the normalised basket is the valid entries of the input
\* list in first-occurrence order without duplicates.
C5_NormalizedDistinct ==
  (IsListInit /\ ret.ran)
    => BuiltBasket = Dedupe(SelectSeq(ret.args.id.items, LAMBDA coin : ~InvalidId(coin)))

\* The coins some pass of the last batch build recorded as failed.
FailedCoins == {ret.log[i].coin : i \in {j \in 1..Len(ret.log) : ret.log[j].failed}}

\* C6: a batch build over a non-empty basket never aborts on a provider
\* error or on insufficient data: it does not raise, every asset of the
\* basket gets its pass (a load or a fetch), in order, and the working
\* basket afterwards is the input basket without the failed assets, in the
\* original order.
C6_FailureIsolation ==
  (IsListInit /\ Normalize(ret.args.id.items) # <<>>)
    => LET basket == Normalize(ret.args.id.items) IN
       /\ ret.raised = "" /\ ret.ran /\ self.live /\ self.is_saved
       /\ Len(ret.log) = Len(basket)
       /\ \A i \in 1..Len(basket) :
            ret.log[i].coin = basket[i] /\ ret.log[i].branch \in {"load", "fetch"}
       /\ self.id.isList
       /\ self.id.items = SelectSeq(basket, LAMBDA coin : coin \notin FailedCoins)

\* C6 witness: a pass failed on a provider error or on insufficient data and
\* a later pass of the same build fetched and persisted its series.
C6_Witness ==
  /\ IsListInit
  /\ \E i, j \in 1..Len(ret.log) :
       /\ i < j
       /\ ret.log[i].branch = "fetch" /\ ret.log[i].failed /\ ~ret.log[i].stored
       /\ ret.log[j].branch = "fetch" /\ ret.log[j].persisted
       /\ self.id.items = <<ret.log[j].coin>>

\* A reply with fewer than half of the window's samples (or without prices).
FewerThanHalf(reply, days) ==
  reply.t \in {"falsy", "nokey"} \/ (reply.t = "chart" /\ 2 * Len(reply.prices) < days)

AtLeastHalf(reply, days) == reply.t = "chart" /\ 2 * Len(reply.prices) >= days

\* The passes of the last batch build that got an answer from the provider.
Answered == {i \in 1..Len(ret.log) : ret.log[i].branch = "fetch" /\ ret.log[i].reply.t # "error"}

Occurrences(coin) == Cardinality({i \in 1..Len(ret.log) : ret.log[i].coin = coin})

\* The first half of C7: on fewer than half of the window's samples the pass
\* neither stores nor persists a series and the asset leaves the working
\* basket (for an asset listed once: no entry in the store and no file).
C7_InsufficientNotKept ==
  \A i \in Answered :
    FewerThanHalf(ret.log[i].reply, self.days)
      => /\ ~ret.log[i].stored /\ ~ret.log[i].persisted
         /\ ret.log[i].coin \notin Range(self.id.items)
         /\ Occurrences(ret.log[i].coin) = 1
              => /\ ~DictHas(self.saved_tables, ret.log[i].coin.text)
                 /\ ~Exists(datasets,
                            FileName(ret.log[i].coin, self.vs_currency, self.days))

C8_BuilderShape ==
  (ret.op = "reformat_data" /\ ret.raised = "" /\ Len(UsedChart[1].prices) >= 2)
    => LET raw == UsedChart[1].prices
           df == ret.value.rows
       IN /\ Len(df) = Len(raw) - 1
          /\ \A i \in 1..(Len(df) - 1) : df[i + 1].date = df[i].date + 1
          /\ df[Len(df)].date = today
          /\ df[Len(df)].daily_close = raw[Len(raw)][2]
          /\ df[1].date = today - (Len(raw) - 2)

\* C9 as claimed: reformat_data fails on an empty raw list, and no empty
\* series is stored or persisted by the batch build.
C9_EmptyInputRejected ==
  /\ (ret.op = "reformat_data" /\ UsedChart # <<>> /\ UsedChart[1].prices = <<>>)
       => ret.raised # ""
  /\ self.id.isList
       => /\ \A i \in 1..Len(self.saved_tables) : self.saved_tables[i].table # <<>>
          /\ \A f \in DOMAIN datasets : datasets[f].lines # <<>>

\* C10 as claimed: the correlation table has no self-pair, no pair twice in
\* either orientation, and a row for every basket pair whose correlation is
\* defined.
C10_OneRowPerPair ==
  (IsCorrelationCall /\ ret.raised = "" /\ ret.value.t = "frame")
    => LET rows == ret.value.rows
           field == IF ret.op = "price_correlation" THEN "daily_close" ELSE "percent_change"
           frame == DropNa(Comparison(self.saved_tables, field))
       IN /\ \A i \in 1..Len(rows) : rows[i].coin1 # rows[i].coin2
          /\ \A i, j \in 1..Len(rows) :
               i # j => {rows[i].coin1, rows[i].coin2} # {rows[j].coin1, rows[j].coin2}
          /\ \A x, y \in Range(self.id.items) :
               (x # y /\ CorrAt(frame, x.text, y.text).k = "num")
                 => \E i \in 1..Len(rows) : {rows[i].coin1, rows[i].coin2} = {x.text, y.text}

\* --------------------------------------- sessions on one storage (Spec)
\* Sessions follow one another on the same datasets/ directory; each asks
\* for a basket under a (currency, window) pair, with or without reset.
Baskets == {<<Str("a")>>, <<Str("a"), Str("b")>>, <<Str("a"), Str("a")>>}
Keys == {<<"usd", 2>>, <<"usd", 3>>, <<"eur", 2>>}
SessionFeed == {ApiError, Chart(<<1, 0, 1>>)}

AllWritten(n) == [i \in 1..n |-> TRUE]

Open ==
  \E basket \in Baskets, key \in Keys, reset \in BOOLEAN :
    \E replies \in [1..Len(basket) -> SessionFeed] :
      DoInit(AList(basket), key[1], key[2], 0, reset, MarketError, replies,
             AllWritten(Len(basket)))

\* save_tables called again on the object, also with an entry that is no id.
Resave ==
  \E coin_list \in Baskets \cup {<<None, Str("b")>>} :
    \E replies \in [1..Len(coin_list) -> SessionFeed] :
      DoSaveTables(coin_list, replies, AllWritten(Len(coin_list)))

Next == Open \/ Resave \/ Tick

Spec == Init /\ [][Next]_vars

\* The coins a build call was asked for.
Asked(r) == IF r.op = "__init__" THEN r.args.id.items ELSE r.args.coin_list

\* C1: when the file of a key (coin, currency, window) exists and reset is
\* false, a batch build for that key calls no provider for the coin, leaves
\* the file as it is and, when its loop runs, puts the series read back from
\* the file in the store.
C1_CacheHit ==
  [][(nbuilds' = nbuilds + 1 /\ ~self'.reset)
       => \A i \in 1..Len(Asked(ret')) :
            LET coin == Asked(ret')[i]
                file_name == <<coin.text, self'.vs_currency, self'.days>>
            IN (~InvalidId(coin) /\ file_name \in DOMAIN datasets)
                 => /\ ret'.raised = ""
                    /\ \A p \in 1..Len(ret'.log) :
                         ret'.log[p].coin = coin
                           => ret'.log[p].branch = "load" /\ ret'.log[p].reply = NoCall
                    /\ file_name \in DOMAIN datasets'
                    /\ datasets'[file_name] = datasets[file_name]
                    /\ ret'.ran
                         => /\ DictHas(self'.saved_tables, coin.text)
                            /\ DictGet(self'.saved_tables, coin.text)
                                 = ReadCsv(datasets[file_name])
                            /\ coin \in Range(self'.id.items)
                    /\ ~ret'.ran => self' = self]_vars

\* C1 witness: a second session, a day after the first, without reset, has
\* loaded a non-empty series from the file the first one wrote.
C1_Witness ==
  /\ nbuilds = 2 /\ today = 1 /\ ret.op = "__init__" /\ ~self.reset /\ ret.ran
  /\ \E p \in 1..Len(ret.log) :
       /\ ret.log[p].branch = "load"
       /\ DictGet(self.saved_tables, ret.log[p].coin.text) # <<>>
       /\ DictGet(self.saved_tables, ret.log[p].coin.text)[1].date < 0
  /\ \A p \in 1..Len(ret.log) : ret.log[p].branch = "load"

\* C2 as claimed: with reset=True a batch build fetches every asset from the
\* provider and persists the new series, also when a file exists for the key.
C2_ResetRefetches ==
  (ret.op \in {"__init__", "save_tables"} /\ self.live /\ self.reset)
    => \A p \in 1..Len(ret.log) :
         ret.log[p].branch # "skip"
           => ret.log[p].branch = "fetch"
              /\ (ret.log[p].stored => ret.log[p].persisted)

\* ------------------------------------------ the top-coin resolver (SpecTop)
MaxLimit == 2
TopEntries == Ids \cup {None}
Markets(limit) == {MarketError} \cup {Market(l) : l \in SeqsUpTo(TopEntries, limit)}
TopFeed == {ApiError, Chart(<<1, 1, 0>>)}

\* A session on the top `limit` coins.
OpenTop ==
  \E limit \in 1..MaxLimit :
    \E market \in Markets(limit), replies \in [1..limit -> TopFeed] :
      DoInit(AnId(Str("a")), "usd", 2, limit, FALSE, market, replies, AllWritten(limit))

\* A session on one coin, without limit.
OpenPlain ==
  DoInit(AnId(Str("a")), "usd", 2, 0, FALSE, MarketError, <<Chart(<<1, 1, 0>>)>>, <<TRUE>>)

AskTop ==
  \E limit \in 1..MaxLimit : \E market \in Markets(limit) : DoTopCoins(limit, market)

NextTop == OpenTop \/ OpenPlain \/ AskTop \/ Tick

SpecTop == Init /\ [][NextTop]_vars

\* C3 as claimed: once top_coins(limit) has fetched the list today on this
\* object, a call with the same limit today returns that list and calls no
\* provider; a call with another limit or on another day fetches afresh.
C3_SameDayCached ==
  [][(ret'.op = "top_coins" /\ self.live /\ self.date_of_save # <<>>)
       => IF self.date_of_save = <<today>> /\ self.last_top_coin_limit = <<ret'.args.limit>>
          THEN ret'.raised = "" /\ ret'.market = 0
               /\ ret'.value = ListValue(self.top_coins.list)
          ELSE ret'.raised = "" /\ ret'.market = 1]_vars

\* ------------------------------------------- date alignment (SpecAlign)
\* Sessions on baskets of two or three different coins under one key, on
\* one storage and on successive days, each followed by correlation
\* queries.  The provider's charts give series that end today, series whose
\* last row the builder dropped (a zero price after a zero price) and a
\* series with an infinite change.  No provider is called for a coin whose
\* file exists, so one reply stands for all there.
AlignCoins == {Str("a"), Str("b"), Str("c")}
AlignBaskets ==
  {l \in SeqsUpTo(AlignCoins, 3) : Len(l) >= 2 /\ Cardinality(Range(l)) = Len(l)}
AlignFeed == {Chart(<<1, 1, 0>>), Chart(<<1, 0, 0>>), Chart(<<0, 1>>)}

AlignOpen ==
  \E basket \in AlignBaskets :
    \E replies \in [1..Len(basket) -> AlignFeed] :
      /\ \A i \in 1..Len(basket) :
           Exists(datasets, FileName(basket[i], "usd", 2)) => replies[i] = Chart(<<0, 1>>)
      /\ DoInit(AList(basket), "usd", 2, 0, FALSE, MarketError, replies,
                AllWritten(Len(basket)))

NextAlign == AlignOpen \/ AskPrice \/ AskReturn \/ Tick

SpecAlign == Init /\ [][NextAlign]_vars

\* The field a correlation call selects.
FieldOf(op) == IF op = "price_correlation" THEN "daily_close" ELSE "percent_change"

\* The dates on which a series has a value of the field that is not missing.
Present(table, field) ==
  {r.date : r \in {x \in Range(Slice(table, field)) : ~IsNa(x.val)}}

\* The dates on which every series of the store has such a value.
CommonDates(dict, field) ==
  {d \in Present(dict[1].table, field) :
     \A i \in 1..Len(dict) : d \in Present(dict[i].table, field)}

\* The store with its entries in another order.
Reorderings(dict) ==
  {[i \in 1..Len(dict) |-> dict[f[i]]] :
     f \in {g \in [1..Len(dict) -> 1..Len(dict)] : Range(g) = 1..Len(dict)}}

\* The call got as far as aligning the series of a store that is not empty.
Aligned ==
  IsCorrelationCall /\ self.id.isList /\ self.has_tables /\ self.saved_tables # EmptyDict

\* C11: the dates a correlation call keeps after the join and the dropna
\* are exactly the dates on which every asset of the store has a
\* non-missing value of the selected field, each once, and joining the
\* store's series in any other order keeps the same dates.
C11_IntersectionDates ==
  Aligned
    => LET field == FieldOf(ret.op)
           common == CommonDates(self.saved_tables, field)
       IN /\ Range(ret.args.index) = common
          /\ Len(ret.args.index) = Cardinality(common)
          /\ \A dict \in Reorderings(self.saved_tables) :
               {r.date : r \in Range(DropNa(Comparison(dict, field)).rows)} = common

\* C11 witness: three series with three different date sets, the first one
\* loaded from a file of the day before, a later one with a date the first
\* has not, and one date that all three have.
C11_Witness ==
  /\ Aligned /\ Len(self.saved_tables) = 3 /\ today = 1
  /\ LET field == FieldOf(ret.op)
         P(i) == Present(self.saved_tables[i].table, field)
     IN /\ P(1) # P(2) /\ P(2) # P(3) /\ P(1) # P(3)
        /\ P(2) \ P(1) # {}
        /\ Cardinality(Range(ret.args.index)) = 1
        /\ Range(ret.args.index) # P(1)

\* ------------------------------------- a failing ranking call (SpecTop)
\* top_coins(limit) does not answer from its cache: no list was saved today
\* for this limit.
CacheMiss(limit) ==
  ~(self.date_of_save = <<today>> /\ self.last_top_coin_limit = <<limit>>)

\* C12 as claimed: when get_coins_markets fails, top_coins(limit) returns an
\* empty list, does not raise and leaves the saved (limit, date, list) as it
\* was; and a constructor given a limit then raises ValueError, makes no
\* object and builds nothing.
C12_FailedRankingEmpty ==
  [][\A limit \in 1..MaxLimit :
       /\ (CacheMiss(limit) /\ DoTopCoins(limit, MarketError))
            => /\ ret'.raised = ""
               /\ ret'.value = ListValue(<<>>)
               /\ self' = self
       /\ \A replies \in [1..limit -> TopFeed] :
            DoInit(AnId(Str("a")), "usd", 2, limit, FALSE, MarketError, replies,
                   AllWritten(limit))
              => /\ ret'.raised = "ValueError"
                 /\ self' = NoObject
                 /\ ret'.log = <<>>
                 /\ datasets' = datasets]_vars

\* The two halves of C12 on their own: the constructor half, and the
\* resolver half on an object whose top_coins is still the method.
C12_ConstructorRejects ==
  [][\A limit \in 1..MaxLimit : \A replies \in [1..limit -> TopFeed] :
       DoInit(AnId(Str("a")), "usd", 2, limit, FALSE, MarketError, replies,
              AllWritten(limit))
         => ret'.raised = "ValueError" /\ self' = NoObject /\ datasets' = datasets]_vars

C12_EmptyWhileCallable ==
  [][\A limit \in 1..MaxLimit :
       (self.top_coins.callable /\ DoTopCoins(limit, MarketError))
         => ret'.raised = "" /\ ret'.value = ListValue(<<>>) /\ self' = self]_vars

\* ------------------------------------- the store and the basket (SpecBatch)
\* The ids that have an entry in self.saved_tables.
StoreKeys == Range(DictKeys(self.saved_tables))

\* The ids of the working basket.
BasketKeys == {coin.text : coin \in Range(self.id.items)}

\* C13 as claimed: after a batch build an asset has an entry in the store
\* exactly when it is in the working basket, every pass that put an entry
\* there loaded it from its file or fetched and persisted it, and an asset
\* recorded as failed has no entry; so the columns a correlation call
\* aligns are those of the working basket.
C13_StoreMatchesBasket ==
  (self.live /\ self.id.isList /\ self.has_tables)
    => /\ StoreKeys = BasketKeys
       /\ (IsListInit /\ ret.ran)
            => /\ \A i \in 1..Len(ret.log) :
                    ret.log[i].stored
                      => ret.log[i].branch = "load" \/ ret.log[i].persisted
               /\ \A coin \in FailedCoins : ~DictHas(self.saved_tables, coin.text)

====
